---- MODULE Spec2Model ----
(***************************************************************************)
(* Verification model of garmin-to-notion (src/garmin_to_notion.py).       *)
(*                                                                         *)
(* Two state machines share this module:                                   *)
(*   SpecExtract - the pure function extract_value applied to bounded      *)
(*                 nested structures (JSON-like values);                   *)
(*   Spec        - one run of main(): environment check, login, metric     *)
(*                 fetches, health write, preload, activity sync.          *)
(***************************************************************************)
EXTENDS Integers, Sequences, FiniteSets, TLC

(***************************************************************************)
(* Bounds of the model.                                                    *)
(***************************************************************************)
\* Largest number of nodes (containers + leaves) of an input structure.
MaxNodes == 5

(***************************************************************************)
(* Python values, tagged.  A dict keeps its insertion order (a sequence of *)
(* entries with distinct keys); a list is a sequence of values.            *)
(***************************************************************************)
None == [t |-> "none"]
PyInt(n) == [t |-> "int", n |-> n]
PyStr(s) == [t |-> "str", s |-> s]
PyDict(ents) == [t |-> "dict", ents |-> ents]
PyList(elems) == [t |-> "list", elems |-> elems]

\* Key names occurring in structures; "b" is a candidate in some candidate
\* lists and a foreign key under the list <<"a">>.
KeyNames == {"a", "b"}

\* Candidate key lists handed to extract_value (non-empty, ordered).
CandLists == {<<"a">>, <<"a", "b">>, <<"b", "a">>}

\* The structures of exactly one node: scalars, None, empty containers.
Leaves == {PyInt(0), PyInt(1), PyStr(""), None, PyDict(<<>>), PyList(<<>>)}

\* Sequences of distinct key names of length len.
KeySeqs(len) ==
    {ks \in [1..len -> KeyNames] : \A i, j \in 1..len : ks[i] = ks[j] => i = j}

\* Every sequence of distinct key names.
AllKeySeqs == UNION {KeySeqs(len) : len \in 1..Cardinality(KeyNames)}

\* Sequences of structures whose sizes sum to m; bySize[k] holds the
\* structures of exactly k nodes.
RECURSIVE SeqsTotal(_, _)
SeqsTotal(bySize, m) ==
    IF m = 0 THEN {<<>>}
    ELSE UNION {{<<x>> \o r : x \in bySize[k], r \in SeqsTotal(bySize, m - k)}
                : k \in 1..m}

\* The shapes of a container: a list, or a dict with the given keys in order.
Shapes == {[list |-> TRUE, ks |-> <<>>]} \cup {[list |-> FALSE, ks |-> ks] : ks \in AllKeySeqs}

\* The container of shape sh holding the values vs.
Container(sh, vs) ==
    IF sh.list THEN PyList(vs)
    ELSE PyDict([i \in 1..Len(vs) |-> [k |-> sh.ks[i], val |-> vs[i]]])

\* The structures of exactly n nodes (n > 1), given those of fewer nodes.
LevelFrom(bySize, n) ==
    {Container(p[1], p[2]) :
        p \in {q \in Shapes \X SeqsTotal(bySize, n - 1) :
                  q[1].list \/ Len(q[1].ks) = Len(q[2])}}

RECURSIVE BySize(_)
BySize(n) ==
    IF n = 1 THEN <<Leaves>>
    ELSE LET prev == BySize(n - 1) IN Append(prev, LevelFrom(prev, n))

\* StructsBySize(n): every input structure of exactly n nodes, n <= MaxNodes.
StructsBySize(n) == BySize(n)[n]

(***************************************************************************)
(* extract_value (src/garmin_to_notion.py:158-179).                        *)
(***************************************************************************)
\* Python truthiness of a value: `not data` (line 159).
Falsy(data) ==
    \/ data.t = "none"
    \/ data.t = "int" /\ data.n = 0
    \/ data.t = "str" /\ data.s = ""
    \/ data.t = "dict" /\ data.ents = <<>>
    \/ data.t = "list" /\ data.elems = <<>>

\* Mutant: a truthy test instead of the isinstance test.
IsScalarTruthy(val) == val.t \in {"int", "str"} /\ ~Falsy(val)

\* isinstance(val, (int, float, str)) (line 165).
IsScalar(val) == val.t \in {"int", "str"}

\* Mutant: `if res:` instead of `if res is not None:`.
IsNotNoneTruthy(res) == ~Falsy(res)

\* `res is not None` (lines 168, 172, 177).
IsNotNone(res) == res # None

\* `k in data` for a dict (line 163).
HasKey(data, k) == \E i \in 1..Len(data.ents) : data.ents[i].k = k

\* data[k] for a dict holding k (line 164).
Lookup(data, k) ==
    data.ents[CHOOSE i \in 1..Len(data.ents) : data.ents[i].k = k].val

\* Mutant: iterate a list from its last element.
ListOrderReversed(elems) == [i \in 1..Len(elems) |-> elems[Len(elems) + 1 - i]]

\* `for item in data` (line 175): the elements in index order.
ListOrder(elems) == elems

RECURSIVE extract_value(_, _)
RECURSIVE ScanCandidates(_, _, _)
RECURSIVE ScanValues(_, _, _)
RECURSIVE ScanItems(_, _, _)

\* Lines 162-169: the loop over the candidate keys, from candidate i on.
ScanCandidates(data, keys, i) ==
    IF i > Len(keys) THEN None
    ELSE IF HasKey(data, keys[i])
         THEN LET val == Lookup(data, keys[i])
              IN IF IsScalar(val) THEN val
                 ELSE LET res == extract_value(val, keys)
                      IN IF IsNotNone(res) THEN res
                         ELSE ScanCandidates(data, keys, i + 1)
         ELSE ScanCandidates(data, keys, i + 1)

\* Lines 170-173: the loop over data.values(), from entry i on.
ScanValues(ents, keys, i) ==
    IF i > Len(ents) THEN None
    ELSE LET res == extract_value(ents[i].val, keys)
         IN IF IsNotNone(res) THEN res ELSE ScanValues(ents, keys, i + 1)

\* Lines 175-178: the loop over the items of a list, from item i on.
ScanItems(elems, keys, i) ==
    IF i > Len(elems) THEN None
    ELSE LET res == extract_value(elems[i], keys)
         IN IF IsNotNone(res) THEN res ELSE ScanItems(elems, keys, i + 1)

\* Mutant: return as soon as the candidate loop is over, skipping the
\* loop over data.values().
DictSearchDirectOnly(data, keys) == ScanCandidates(data, keys, 1)

\* Mutant: the values of the mapping are searched before its direct keys.
DictSearchValuesFirst(data, keys) ==
    LET deep == ScanValues(data.ents, keys, 1)
    IN IF deep # None THEN deep ELSE ScanCandidates(data, keys, 1)

\* Lines 161-173: the dict branch; the loop over the values runs whenever
\* the candidate loop returned nothing.
DictSearch(data, keys) ==
    LET direct == ScanCandidates(data, keys, 1)
    IN IF direct # None THEN direct ELSE ScanValues(data.ents, keys, 1)

\* Mutant: a scalar input is returned as if it were a match.
extract_value_leaf(data, keys) ==
    IF Falsy(data) THEN None
    ELSE IF data.t = "dict" THEN DictSearch(data, keys)
    ELSE IF data.t = "list" THEN ScanItems(ListOrder(data.elems), keys, 1)
    ELSE data

\* Lines 158-179.
extract_value(data, keys) ==
    IF Falsy(data) THEN None
    ELSE IF data.t = "dict" THEN DictSearch(data, keys)
    ELSE IF data.t = "list" THEN ScanItems(ListOrder(data.elems), keys, 1)
    ELSE None


(***************************************************************************)
(* One run of main() (src/garmin_to_notion.py:372-604).                    *)
(*                                                                         *)
(* Modelled payload: the identifying properties (title, date), the         *)
(* activity type, the Garmin ID and, for the health record, one property   *)
(* per fetched metric.  The numeric activity properties (distance, pace,   *)
(* calories, training effect) are value transforms that no step of the     *)
(* control flow reads; they are left out.  Responses of successful         *)
(* fetches are taken to be well formed.                                    *)
(***************************************************************************)
\* Largest number of pages in the activities table before the run.
MaxPages == 2
\* Largest number of activities returned by garmin.get_activities.
MaxActs == 2

\* datetime.date.today() (line 389), as a day number.
Today == 100
\* The scan window in days (line 500).
WindowDays == 14
\* America/Chicago (line 29) is UTC-6 in winter: hours to subtract from UTC.
UtcOffset == 6

\* ---- timestamps ----
\* A raw Garmin timestamp: absent, unparseable, or UTC day and hour.
NoTs == [fmt |-> "none"]
BadTs == [fmt |-> "bad"]
UtcTs(day, hour) == [fmt |-> "utc", day |-> day, hour |-> hour]

\* A local ISO timestamp is <<day, hour>>; Python None is <<>>.
NoIso == <<>>

\* parse_garmin_datetime (lines 97-127): None for an absent or unparseable
\* value, else the timestamp read as UTC and converted to local time.
parse_garmin_datetime(ts) ==
    IF ts.fmt # "utc" THEN NoIso
    ELSE IF ts.hour >= UtcOffset THEN <<ts.day, ts.hour - UtcOffset>>
    ELSE <<ts.day - 1, ts.hour + 24 - UtcOffset>>

\* parsed_iso.split("T")[0] / parsed_iso[:10] (lines 531, 544, 344).
DateOnly(iso) == iso[1]

\* ---- Notion property values ----
NoProp == [kind |-> "none"]

\* notion_date_obj_from_iso (lines 129-132).
notion_date_obj_from_iso(iso) ==
    IF iso = NoIso THEN NoProp ELSE [kind |-> "date", start |-> iso]

\* notion_title (lines 150-151).
notion_title(text) == [kind |-> "title", content |-> text]

\* notion_select (lines 145-148); a missing name is the empty string here.
notion_select(name) ==
    IF name = "" THEN NoProp ELSE [kind |-> "select", name |-> name]

\* notion_number (lines 134-143) on a metric that is present or not.
notion_number(present) ==
    IF present THEN [kind |-> "number"] ELSE NoProp

\* {k: v for k, v in props.items() if v is not None} (lines 258, 295).
DropNone(props) == [k \in {n \in DOMAIN props : props[n] # NoProp} |-> props[k]]

\* ---- fetches ----
\* The per-day metrics fetched through safe_fetch, in order (lines 393-399).
HealthMetrics ==
    <<"steps", "sleep_data", "body_battery", "body_comp", "readiness",
      "status", "stats">>

\* The `or []` / `or {}` default of each metric (lines 393-399, 504).
DefaultOf(m) == IF m \in {"sleep_data", "body_comp"} THEN "{}" ELSE "[]"

\* Mutant: safe_fetch without its try/except; the error propagates.
safe_fetch_uncaught(raised, value) == IF raised THEN "EXC" ELSE value

\* safe_fetch (lines 90-95): the value, or None when the call raised.
safe_fetch(raised, value) == IF raised THEN "None" ELSE value

\* `x or default` (lines 393-399, 504).
OrDefault(x, default) == IF x \in {"None", "[]", "{}"} THEN default ELSE x

\* build_health_properties (lines 240-258) on the metrics of lines 401-464:
\* Name and Date from yesterday's date, one number/select per metric that
\* yielded data.
build_health_properties(yesterday, m) ==
    DropNone([Name |-> notion_title(ToString(yesterday)),
              Date |-> notion_date_obj_from_iso(<<yesterday, 0>>),
              Steps |-> notion_number(m["steps"] = "data"),
              BodyWeight |-> notion_number(m["body_comp"] = "data"),
              BodyBattery |-> notion_number(m["body_battery"] = "data"),
              SleepScore |-> notion_number(m["sleep_data"] = "data"),
              TrainingReadiness |-> notion_number(m["readiness"] = "data"),
              TrainingStatus |-> notion_select(IF m["status"] = "data" THEN "Productive" ELSE ""),
              RestingHR |-> notion_number(m["stats"] = "data")])

\* ---- activities ----
\* format_activity_type (lines 184-209) on the type keys of the model; the
\* name-based overrides do not apply to the names of the model.
format_activity_type(typeKey, name) ==
    IF typeKey = "" THEN "Unknown"
    ELSE IF typeKey \in {"running", "treadmill_running"} THEN "Running"
    ELSE typeKey

\* Mutant: the name is taken as it is, without the fallback.
ActivityNameNoFallback(act, parsed_iso) == act.name

\* Line 531: the activity name, or "Activity <date>".
ActivityName(act, parsed_iso) ==
    IF act.name # "" THEN act.name
    ELSE "Activity " \o ToString(DateOnly(parsed_iso))

\* Lines 532-539: the Garmin ID as a string; "" stands for None.
GarminIdOf(act) == IF act.id = 0 THEN "" ELSE ToString(act.id)

\* build_activity_properties (lines 260-295), identifying properties.
build_activity_properties(act_iso, activity_name, activity_type) ==
    DropNone([ActivityName |-> notion_title(activity_name),
              Date |-> notion_date_obj_from_iso(act_iso),
              ActivityType |-> notion_select(activity_type)])

\* Line 500: the cutoff date.
Cutoff == Today - WindowDays

\* Mutant: the cutoff is compared with the UTC date of the timestamp.
KeepCandidateUtcDate(act) ==
    /\ parse_garmin_datetime(act.startTimeGMT) # NoIso
    /\ ~(act.startTimeGMT.day < Cutoff)

\* Lines 510-521: an activity is a candidate when its timestamp parses and
\* its local date is not before the cutoff.
KeepCandidate(act) ==
    LET parsed_iso == parse_garmin_datetime(act.startTimeGMT)
    IN parsed_iso # NoIso /\ ~(DateOnly(parsed_iso) < Cutoff)

\* Lines 507-521: the candidates, in fetch order.
RECURSIVE FilterCandidates(_)
FilterCandidates(acts) ==
    IF acts = <<>> THEN <<>>
    ELSE IF KeepCandidate(Head(acts))
         THEN <<Head(acts)>> \o FilterCandidates(Tail(acts))
         ELSE FilterCandidates(Tail(acts))

\* The activities Garmin may return.
\* RecentTs is yesterday; EdgeTs is the first hour of the cutoff day in
\* local time; OldTs is the hour before it (the cutoff day in UTC, the day
\* before in local time).
RecentTs == UtcTs(Today - 1, 12)
EdgeTs == UtcTs(Today - WindowDays, UtcOffset)
OldTs == UtcTs(Today - WindowDays, UtcOffset - 1)
ActChoices ==
    {[id |-> 1, name |-> "Run", typeKey |-> "running", startTimeGMT |-> RecentTs],
     [id |-> 2, name |-> "Run", typeKey |-> "running", startTimeGMT |-> RecentTs],
     [id |-> 0, name |-> "Run", typeKey |-> "running", startTimeGMT |-> RecentTs],
     [id |-> 1, name |-> "", typeKey |-> "running", startTimeGMT |-> EdgeTs],
     [id |-> 1, name |-> "Run", typeKey |-> "running", startTimeGMT |-> OldTs],
     [id |-> 2, name |-> "Run", typeKey |-> "running", startTimeGMT |-> NoTs],
     [id |-> 2, name |-> "Run", typeKey |-> "running", startTimeGMT |-> BadTs]}

ActLists == UNION {[1..n -> ActChoices] : n \in 0..MaxActs}

\* ---- the activities table ----
\* A page: id, Garmin ID ("" when empty), Activity Name, Date start, Activity Type.
Page(id, gid, name, date, type) ==
    [id |-> id, gid |-> gid, name |-> name, date |-> date, type |-> type]

PageChoices ==
    {[gid |-> "", name |-> "Run"], [gid |-> "1", name |-> "Run"],
     [gid |-> "1", name |-> "Other"]}

\* The tables the run may find: up to MaxPages pages, ids by position.
InitialTables ==
    UNION {{[i \in 1..n |-> Page(i, c[i].gid, c[i].name,
                                 parse_garmin_datetime(RecentTs), "Running")]
            : c \in [1..n -> PageChoices]}
           : n \in 0..MaxPages}

\* A page of the table holds a Garmin ID value; only a table that has the
\* 'Garmin ID' property can hold one.
HasGarminIdValue(pages) == \E i \in 1..Len(pages) : pages[i].gid # ""

\* Lines 337-344: the fallback key of a page.
PageKey(p) == <<p.name, DateOnly(p.date), p.type>>

\* The last element of pages satisfying the test, for dicts filled in a loop.
LastIndex(S) == CHOOSE i \in S : \A j \in S : j <= i

\* preload_existing_activities (lines 300-356) on the pages of the table,
\* of which the first n were read before an error ended the loop (a query
\* that raises, a page whose Date is empty); n = Len(pages) when none did.
\* The error is caught (lines 353-354) and what was read so far is returned.
preload_existing_activities(pages, n) ==
    LET loaded == SubSeq(pages, 1, n)
        gids == {loaded[i].gid : i \in 1..Len(loaded)} \ {""}
        pkeys == {PageKey(loaded[i]) : i \in 1..Len(loaded)}
    IN [existing_by_garmin_id |->
            [g \in gids |-> loaded[LastIndex({i \in 1..Len(loaded) : loaded[i].gid = g})].id],
        existing_by_key |->
            [k \in pkeys |-> loaded[LastIndex({i \in 1..Len(loaded) : PageKey(loaded[i]) = k})].id],
        db_has_garmin_id |-> gids # {},
        loaded |-> loaded]

\* dict.get (lines 362, 367): 0 stands for None.
DictGet(d, k) == IF k \in DOMAIN d THEN d[k] ELSE 0

\* find_existing_activity_page (lines 358-367).
find_existing_activity_page(garmin_id, name, date_only, act_type, by_garmin_id, by_key, has_garmin_id) ==
    IF has_garmin_id /\ garmin_id # "" /\ DictGet(by_garmin_id, garmin_id) # 0
    THEN DictGet(by_garmin_id, garmin_id)
    ELSE DictGet(by_key, <<name, date_only, act_type>>)

\* ---- writes ----
\* The try/except around the health create (lines 484-489).
HealthCreateResult(raised) == IF raised THEN "caught" ELSE "ok"

\* The try/except around pages.update (lines 572-577).
UpdateResult(raised) == IF raised THEN "caught" ELSE "ok"

\* Mutant: pages.create without try/except; the error ends the run.
CreateResultUncaught(raised) == IF raised THEN "propagated" ELSE "ok"

\* The try/except around pages.create (lines 588-595).
CreateResult(raised) == IF raised THEN "caught" ELSE "ok"

NoWrite == [table |-> "none"]

(***************************************************************************)
(* clean_training_label (lines 66-85).  A Python string is the sequence of *)
(* its characters, so that `k in s`, upper(), replace() and title() are    *)
(* computed character by character.                                        *)
(***************************************************************************)
LowerLetters ==
    <<"a", "b", "c", "d", "e", "f", "g", "h", "i", "j", "k", "l", "m", "n", "o", "p", "q", "r", "s", "t", "u", "v", "w", "x", "y", "z">>
UpperLetters ==
    <<"A", "B", "C", "D", "E", "F", "G", "H", "I", "J", "K", "L", "M", "N", "O", "P", "Q", "R", "S", "T", "U", "V", "W", "X", "Y", "Z">>

IsLower(c) == \E i \in 1..Len(LowerLetters) : LowerLetters[i] = c
IsUpper(c) == \E i \in 1..Len(UpperLetters) : UpperLetters[i] = c

\* str.upper() and str.lower() on one character.
UpperChar(c) ==
    IF IsLower(c) THEN UpperLetters[CHOOSE i \in 1..Len(LowerLetters) : LowerLetters[i] = c]
    ELSE c
LowerChar(c) ==
    IF IsUpper(c) THEN LowerLetters[CHOOSE i \in 1..Len(UpperLetters) : UpperLetters[i] = c]
    ELSE c

\* str(label).upper() (line 69).
StrUpper(s) == [i \in 1..Len(s) |-> UpperChar(s[i])]
StrLower(s) == [i \in 1..Len(s) |-> LowerChar(s[i])]

\* `k in s` on strings (line 83): k is a substring of s.
StrContains(k, s) ==
    \E i \in 0..(Len(s) - Len(k)) : SubSeq(s, i + 1, i + Len(k)) = k

\* s.replace("_", " ").title() (line 85): an underscore becomes a space; a
\* letter is upper case after a character that is not a letter, else lower.
ReplaceTitle(s) ==
    LET r == [i \in 1..Len(s) |-> IF s[i] = "_" THEN " " ELSE s[i]]
    IN [i \in 1..Len(r) |->
          IF i = 1 \/ ~(IsLower(r[i - 1]) \/ IsUpper(r[i - 1]))
          THEN UpperChar(r[i]) ELSE LowerChar(r[i])]

\* The table `known` (lines 70-81), in insertion order.
known ==
    <<[k |-> <<"I", "M", "P", "R", "O", "V", "I", "N", "G">>,
       v |-> <<"I", "m", "p", "r", "o", "v", "i", "n", "g">>],
      [k |-> <<"I", "M", "P", "A", "C", "T", "I", "N", "G">>,
       v |-> <<"I", "m", "p", "a", "c", "t", "i", "n", "g">>],
      [k |-> <<"H", "I", "G", "H", "L", "Y", "_", "I", "M", "P", "A", "C", "T", "I", "N", "G">>,
       v |-> <<"H", "i", "g", "h", "l", "y", " ", "I", "m", "p", "a", "c", "t", "i", "n", "g">>],
      [k |-> <<"M", "A", "I", "N", "T", "A", "I", "N", "I", "N", "G">>,
       v |-> <<"M", "a", "i", "n", "t", "a", "i", "n", "i", "n", "g">>],
      [k |-> <<"R", "E", "C", "O", "V", "E", "R", "Y">>,
       v |-> <<"R", "e", "c", "o", "v", "e", "r", "y">>],
      [k |-> <<"N", "O", "_", "B", "E", "N", "E", "F", "I", "T">>,
       v |-> <<"N", "o", " ", "B", "e", "n", "e", "f", "i", "t">>],
      [k |-> <<"N", "O", "_", "A", "E", "R", "O", "B", "I", "C", "_", "B", "E", "N", "E", "F", "I", "T">>,
       v |-> <<"N", "o", " ", "B", "e", "n", "e", "f", "i", "t">>],
      [k |-> <<"M", "I", "N", "O", "R">>,
       v |-> <<"S", "o", "m", "e", " ", "B", "e", "n", "e", "f", "i", "t">>],
      [k |-> <<"O", "V", "E", "R", "R", "E", "A", "C", "H", "I", "N", "G">>,
       v |-> <<"O", "v", "e", "r", "r", "e", "a", "c", "h", "i", "n", "g">>],
      [k |-> <<"S", "T", "R", "A", "I", "N", "E", "D">>,
       v |-> <<"S", "t", "r", "a", "i", "n", "e", "d">>]>>

\* The return value None of clean_training_label; no string it returns is empty.
NoLabel == <<>>

\* The loop `for k, v in known.items(): if k in s: return v` (lines 82-84),
\* from entry i on, then the fall-through of line 85.
RECURSIVE ScanKnown(_, _)
ScanKnown(s, i) ==
    IF i > Len(known) THEN ReplaceTitle(s)
    ELSE IF StrContains(known[i].k, s) THEN known[i].v
    ELSE ScanKnown(s, i + 1)

\* clean_training_label (lines 66-85); `not label` holds of "" (and None).
clean_training_label(label) ==
    IF label = <<>> THEN NoLabel ELSE ScanKnown(StrUpper(label), 1)

\* The labels the function is called on: the keys of the table and two
\* labels that are not in it, bare or followed by the suffixes Garmin's
\* messages carry, in upper or lower case; and the empty label.
LabelStems ==
    {known[i].k : i \in 1..Len(known)} \cup {<<"T", "E", "M", "P", "O">>, <<"A", "E", "R", "O", "B", "I", "C", "_", "B", "A", "S", "E">>}
LabelSuffixes == {<<>>, <<"_", "1">>, <<"_", "V", "O", "2", "_", "M", "A", "X", "_", "2">>}
LabelInputs ==
    {<<>>} \cup {st \o su : st \in LabelStems, su \in LabelSuffixes}
          \cup {StrLower(st \o su) : st \in LabelStems, su \in LabelSuffixes}

(***************************************************************************)
(* State.                                                                  *)
(***************************************************************************)
VARIABLES
    \* extract_value: its arguments, its result, and call / returned
    data, keys, result, epc,
    \* clean_training_label: its argument, its result, and call / returned
    label, cleaned, lpc,
    \* main: position in the run
    pc,
    \* the required environment variables are all set (line 373)
    envOk,
    \* garmin.login() (line 381): "no" before the call, then "ok" or "failed"
    loginState,
    \* index of the next metric of HealthMetrics to fetch
    fi,
    \* metric name -> "unfetched", "data" or its empty default
    metrics,
    \* the metrics whose fetch raised
    raisedFetches,
    \* the activities table: a sequence of pages
    db,
    \* the activities table has a 'Garmin ID' property (column)
    tableHasGarminId,
    \* number of pages of the health table
    healthPages,
    \* the result of preload_existing_activities, and the pages it read
    existing_by_garmin_id, existing_by_key, db_has_garmin_id, loaded,
    \* the fetched activities, the candidates, the loop index
    activities, candidates, idx,
    \* every page request sent so far: table, op, candidate, page, outcome
    writes,
    \* the payload of the request sent by the last step
    lastWrite,
    \* the number of this run of main (1 or 2), and what the run before it
    \* left: its fetched activities, its requests, the number of pages it
    \* preloaded, the size of the table
    run, prevRun

evars == <<data, keys, result, epc>>

lvars == <<label, cleaned, lpc>>

rvars == <<run, prevRun>>

mvars == <<pc, envOk, loginState, fi, metrics, raisedFetches, db, tableHasGarminId,
           healthPages,
           existing_by_garmin_id, existing_by_key, db_has_garmin_id, loaded,
           activities, candidates, idx, writes, lastWrite>>

vars == <<evars, lvars, mvars, rvars>>

Unfetched == [i \in 1..Len(HealthMetrics) |-> "unfetched"]

\* The locals of main before anything ran.
\* No run of main came before this one.
NoPrev == [activities |-> <<>>, writes |-> <<>>, loaded |-> 0, pages |-> 0]
FirstRun == run = 1 /\ prevRun = NoPrev

\* clean_training_label is not being called.
LabelIdle == label = <<>> /\ cleaned = NoLabel /\ lpc = "idle"

MainIdle ==
    /\ loginState = "no"
    /\ fi = 1
    /\ metrics = Unfetched
    /\ raisedFetches = {}
    /\ healthPages = 0
    /\ existing_by_garmin_id = <<>>
    /\ existing_by_key = <<>>
    /\ db_has_garmin_id = FALSE
    /\ loaded = <<>>
    /\ activities = <<>>
    /\ candidates = <<>>
    /\ idx = 1
    /\ writes = <<>>
    /\ lastWrite = NoWrite

(***************************************************************************)
(* extract_value as a state machine: one call on a bounded input.          *)
(***************************************************************************)
InitExtract ==
    /\ \E n \in 1..MaxNodes : data \in StructsBySize(n)
    /\ keys \in CandLists
    /\ result = None
    /\ epc = "call"
    /\ LabelIdle
    /\ pc = "idle" /\ envOk = TRUE /\ db = <<>> /\ tableHasGarminId = FALSE
    /\ MainIdle
    /\ FirstRun

\* One call extract_value(data, keys).
ExtractCall ==
    /\ epc = "call"
    /\ result' = extract_value(data, keys)
    /\ epc' = "returned"
    /\ UNCHANGED <<data, keys, lvars, mvars, rvars>>

NextExtract == ExtractCall

SpecExtract == InitExtract /\ [][NextExtract]_vars

(***************************************************************************)
(* clean_training_label as a state machine: one call on a label.           *)
(***************************************************************************)
InitLabel ==
    /\ label \in LabelInputs
    /\ cleaned = NoLabel
    /\ lpc = "call"
    /\ data = None /\ keys = <<>> /\ result = None /\ epc = "idle"
    /\ pc = "idle" /\ envOk = TRUE /\ db = <<>> /\ tableHasGarminId = FALSE
    /\ MainIdle
    /\ FirstRun

\* One call clean_training_label(label).
LabelCall ==
    /\ lpc = "call"
    /\ cleaned' = clean_training_label(label)
    /\ lpc' = "returned"
    /\ UNCHANGED <<label, evars, mvars, rvars>>

NextLabel == LabelCall

SpecLabel == InitLabel /\ [][NextLabel]_vars

(***************************************************************************)
(* main as a state machine.                                                *)
(***************************************************************************)
Init ==
    /\ data = None /\ keys = <<>> /\ result = None /\ epc = "idle"
    /\ LabelIdle
    /\ pc = "start"
    /\ envOk \in BOOLEAN
    /\ db \in InitialTables
    /\ tableHasGarminId \in BOOLEAN
    /\ HasGarminIdValue(db) => tableHasGarminId
    /\ MainIdle
    /\ FirstRun

\* Lines 373-375: return when a required environment variable is missing.
CheckEnv ==
    /\ pc = "start"
    /\ pc' = IF envOk THEN "login" ELSE "exit"
    /\ UNCHANGED <<evars, lvars, rvars, tableHasGarminId, envOk, loginState, fi, metrics, raisedFetches, db, healthPages,
                   existing_by_garmin_id, existing_by_key, db_has_garmin_id,
                   loaded, activities, candidates, idx, writes, lastWrite>>

\* Mutant: the login error is logged and the run goes on.
LoginErrorIgnored ==
    /\ pc = "login"
    /\ \E raised \in BOOLEAN :
          /\ loginState' = IF raised THEN "failed" ELSE "ok"
          /\ pc' = "fetch"
    /\ UNCHANGED <<evars, lvars, rvars, tableHasGarminId, envOk, fi, metrics, raisedFetches, db, healthPages,
                   existing_by_garmin_id, existing_by_key, db_has_garmin_id,
                   loaded, activities, candidates, idx, writes, lastWrite>>

\* Lines 377-384: garmin.login(); return when it raises.
Login ==
    /\ pc = "login"
    /\ \E raised \in BOOLEAN :
          /\ loginState' = IF raised THEN "failed" ELSE "ok"
          /\ pc' = IF raised THEN "exit" ELSE "fetch"
    /\ UNCHANGED <<evars, lvars, rvars, tableHasGarminId, envOk, fi, metrics, raisedFetches, db, healthPages,
                   existing_by_garmin_id, existing_by_key, db_has_garmin_id,
                   loaded, activities, candidates, idx, writes, lastWrite>>

\* Lines 393-399: one `safe_fetch(...) or default`.
FetchMetric ==
    /\ pc = "fetch"
    /\ \E raised \in BOOLEAN :
          LET m == HealthMetrics[fi]
              r == safe_fetch(raised, "data")
          IN IF r = "EXC"
             THEN /\ pc' = "aborted"
                  /\ UNCHANGED <<fi, metrics>>
                  /\ raisedFetches' = raisedFetches \cup {m}
             ELSE /\ metrics' = [metrics EXCEPT ![fi] = OrDefault(r, DefaultOf(m))]
                  /\ raisedFetches' = IF raised THEN raisedFetches \cup {m}
                                      ELSE raisedFetches
                  /\ fi' = fi + 1
                  /\ pc' = IF fi = Len(HealthMetrics) THEN "health" ELSE "fetch"
    /\ UNCHANGED <<evars, lvars, rvars, tableHasGarminId, envOk, loginState, db, healthPages, existing_by_garmin_id,
                   existing_by_key, db_has_garmin_id, loaded, activities,
                   candidates, idx, writes, lastWrite>>

\* The metrics by name, for build_health_properties.
MetricsByName ==
    [n \in {HealthMetrics[i] : i \in 1..Len(HealthMetrics)} |->
        metrics[CHOOSE i \in 1..Len(HealthMetrics) : HealthMetrics[i] = n]]

\* Lines 401-489: build the health properties and push them: skipped when
\* Name or Date is missing, else one pages.create whose error is caught.
HealthPush ==
    /\ pc = "health"
    /\ LET health_props == build_health_properties(Today - 1, MetricsByName)
       IN IF "Name" \notin DOMAIN health_props \/ "Date" \notin DOMAIN health_props
          THEN /\ pc' = "preload"
               /\ UNCHANGED <<healthPages, writes, lastWrite>>
          ELSE \E raised \in BOOLEAN :
                  LET res == HealthCreateResult(raised)
                  IN /\ writes' = Append(writes, [table |-> "health", op |-> "create",
                                                  cand |-> 0, page |-> 0, ok |-> res = "ok"])
                     /\ lastWrite' = [table |-> "health", op |-> "create",
                                      props |-> health_props]
                     /\ healthPages' = IF res = "ok" THEN healthPages + 1 ELSE healthPages
                     /\ pc' = IF res = "propagated" THEN "aborted" ELSE "preload"
    /\ UNCHANGED <<evars, lvars, rvars, tableHasGarminId, envOk, loginState, fi, metrics, raisedFetches, db,
                   existing_by_garmin_id, existing_by_key, db_has_garmin_id,
                   loaded, activities, candidates, idx>>

\* Line 497: preload the activities table; a query error is caught inside
\* (lines 353-354).  The locals of the health section are not read again
\* and are dropped here.
Preload ==
    /\ pc = "preload"
    /\ \E n \in 0..Len(db) :
          LET r == preload_existing_activities(db, n)
          IN /\ existing_by_garmin_id' = r.existing_by_garmin_id
             /\ existing_by_key' = r.existing_by_key
             /\ db_has_garmin_id' = r.db_has_garmin_id
             /\ loaded' = r.loaded
    /\ metrics' = Unfetched
    /\ raisedFetches' = {}
    /\ lastWrite' = NoWrite
    /\ pc' = "fetch_acts"
    /\ UNCHANGED <<evars, lvars, rvars, tableHasGarminId, envOk, loginState, fi, db, healthPages, activities, candidates,
                   idx, writes>>

\* Lines 504-523: fetch the activity list through safe_fetch and filter it.
FetchActivities ==
    /\ pc = "fetch_acts"
    /\ \E raised \in BOOLEAN, acts \in ActLists :
          /\ raised => acts = <<>>
          /\ LET r == safe_fetch(raised, IF acts = <<>> THEN "[]" ELSE "data")
             IN IF r = "EXC"
                THEN /\ pc' = "aborted"
                     /\ UNCHANGED <<activities, candidates, raisedFetches>>
                ELSE /\ activities' = IF OrDefault(r, "[]") = "[]" THEN <<>> ELSE acts
                     /\ candidates' = FilterCandidates(activities')
                     /\ raisedFetches' = IF raised THEN {"activities"} ELSE {}
                     /\ pc' = "sync"
    /\ UNCHANGED <<evars, lvars, rvars, tableHasGarminId, envOk, loginState, fi, metrics, db, healthPages,
                   existing_by_garmin_id, existing_by_key, db_has_garmin_id,
                   loaded, idx, writes, lastWrite>>

\* Lines 529-595: one iteration of the loop over the candidates: update the
\* matching page, or create a page; an error of either request is caught.
SyncActivity ==
    /\ pc = "sync"
    /\ idx <= Len(candidates)
    /\ LET act == candidates[idx]
           parsed_iso == parse_garmin_datetime(act.startTimeGMT)
           name == ActivityName(act, parsed_iso)
           garmin_id == GarminIdOf(act)
           act_type == format_activity_type(act.typeKey, name)
           date_only == DateOnly(parsed_iso)
           page_id == find_existing_activity_page(garmin_id, name, date_only,
                          act_type, existing_by_garmin_id, existing_by_key,
                          db_has_garmin_id)
           props == build_activity_properties(parsed_iso, name, act_type)
           withId == db_has_garmin_id /\ garmin_id # ""
       IN \E raised \in BOOLEAN :
            IF page_id # 0
            THEN LET res == UpdateResult(raised)
                 IN /\ writes' = Append(writes, [table |-> "activities", op |-> "update",
                                                 cand |-> idx, page |-> page_id,
                                                 ok |-> res = "ok"])
                    /\ lastWrite' = [table |-> "activities", op |-> "update",
                                     props |-> props]
                    /\ db' = IF res = "ok"
                             THEN [i \in 1..Len(db) |->
                                     IF db[i].id = page_id
                                     THEN Page(page_id, db[i].gid, name, parsed_iso, act_type)
                                     ELSE db[i]]
                             ELSE db
                    /\ pc' = IF res = "propagated" THEN "aborted" ELSE "sync"
            ELSE LET res == CreateResult(raised)
                 IN /\ writes' = Append(writes, [table |-> "activities", op |-> "create",
                                                 cand |-> idx, page |-> 0,
                                                 ok |-> res = "ok"])
                    /\ lastWrite' =
                          [table |-> "activities", op |-> "create",
                           props |-> IF withId
                                     THEN [k \in DOMAIN props \cup {"GarminID"} |->
                                             IF k = "GarminID"
                                             THEN [kind |-> "rich_text", content |-> garmin_id]
                                             ELSE props[k]]
                                     ELSE props]
                    /\ db' = IF res = "ok"
                             THEN Append(db, Page(Len(db) + 1,
                                                  IF withId THEN garmin_id ELSE "",
                                                  name, parsed_iso, act_type))
                             ELSE db
                    /\ pc' = IF res = "propagated" THEN "aborted" ELSE "sync"
    /\ idx' = idx + 1
    /\ UNCHANGED <<evars, lvars, rvars, tableHasGarminId, envOk, loginState, fi, metrics, raisedFetches, healthPages,
                   existing_by_garmin_id, existing_by_key, db_has_garmin_id,
                   loaded, activities, candidates>>

\* Lines 597-604: the loop is over; log out and end.
Finish ==
    /\ pc = "sync"
    /\ idx > Len(candidates)
    /\ pc' = "done"
    /\ UNCHANGED <<evars, lvars, rvars, tableHasGarminId, envOk, loginState, fi, metrics, raisedFetches, db, healthPages,
                   existing_by_garmin_id, existing_by_key, db_has_garmin_id,
                   loaded, activities, candidates, idx, writes, lastWrite>>

Next ==
    \/ CheckEnv
    \/ Login
    \/ FetchMetric
    \/ HealthPush
    \/ Preload
    \/ FetchActivities
    \/ SyncActivity
    \/ Finish

Spec == Init /\ [][Next]_vars

\* main is a sequential script: a step that can be taken is taken.
FairSpec == Spec /\ WF_vars(Next)

(***************************************************************************)
(* Two runs of main, one after the other, on the same tables.              *)
(***************************************************************************)
\* Every request of the run was answered without an error.
AllWritesOk == \A j \in 1..Len(writes) : writes[j].ok

\* The script is started again (line 608) after a run that ended and in
\* which every write succeeded: the locals are those of a fresh process,
\* the tables are as the first run left them.
Rerun ==
    /\ pc = "done" /\ run = 1 /\ AllWritesOk
    /\ run' = 2
    /\ prevRun' = [activities |-> activities, writes |-> writes,
                   loaded |-> Len(loaded), pages |-> Len(db)]
    /\ pc' = "start"
    /\ loginState' = "no"
    /\ fi' = 1 /\ metrics' = Unfetched /\ raisedFetches' = {}
    /\ existing_by_garmin_id' = <<>> /\ existing_by_key' = <<>>
    /\ db_has_garmin_id' = FALSE /\ loaded' = <<>>
    /\ activities' = <<>> /\ candidates' = <<>> /\ idx' = 1
    /\ writes' = <<>> /\ lastWrite' = NoWrite
    /\ UNCHANGED <<evars, lvars, envOk, db, tableHasGarminId, healthPages>>

NextRerun == Next \/ Rerun

SpecRerun == Init /\ [][NextRerun]_vars

(***************************************************************************)
(* Reference notions for the claims about extract_value.  They are stated  *)
(* on the structure itself, without the early returns of the code.         *)
(***************************************************************************)
Range(seq) == {seq[i] : i \in 1..Len(seq)}

Scalar(v) == v.t \in {"int", "str"}

RECURSIVE Flatten(_)
Flatten(ss) == IF Len(ss) = 0 THEN <<>> ELSE Head(ss) \o Flatten(Tail(ss))

\* Every occurrence <<path, value>> of a candidate key holding a scalar
\* value, at any depth of d; path is the sequence of child positions.
RECURSIVE Occ(_, _)
Occ(d, ks) ==
    IF d.t = "dict"
    THEN UNION {(IF d.ents[i].k \in Range(ks) /\ Scalar(d.ents[i].val)
                 THEN {<<<<i>>, d.ents[i].val>>} ELSE {})
                \cup {<<<<i>> \o p[1], p[2]>> : p \in Occ(d.ents[i].val, ks)}
                : i \in 1..Len(d.ents)}
    ELSE IF d.t = "list"
    THEN UNION {{<<<<i>> \o p[1], p[2]>> : p \in Occ(d.elems[i], ks)}
                : i \in 1..Len(d.elems)}
    ELSE {}

\* Some candidate key occurs in d at some depth, whatever its value.
RECURSIVE KeyOccurs(_, _)
KeyOccurs(d, ks) ==
    IF d.t = "dict"
    THEN \E i \in 1..Len(d.ents) :
            d.ents[i].k \in Range(ks) \/ KeyOccurs(d.ents[i].val, ks)
    ELSE IF d.t = "list"
    THEN \E i \in 1..Len(d.elems) : KeyOccurs(d.elems[i], ks)
    ELSE FALSE

\* The candidates of ks that are direct keys of mapping d with a scalar value.
DirectScalarCands(d, ks) ==
    {i \in 1..Len(ks) : HasKey(d, ks[i]) /\ Scalar(Lookup(d, ks[i]))}

\* The smallest element of a non-empty set of naturals.
Least(S) == CHOOSE i \in S : \A j \in S : i <= j

\* C1 as stated: whenever some candidate is a direct key of the mapping with
\* a scalar value, the result is the value of such a direct key.
C1_AsStated ==
    (epc = "returned" /\ data.t = "dict" /\ DirectScalarCands(data, keys) # {})
        => result \in {Lookup(data, keys[i]) : i \in DirectScalarCands(data, keys)}

\* C1, amended: when some candidate is a direct key of the mapping with a
\* scalar value, and no candidate earlier in the list is a direct key whose
\* (non-scalar) value holds a scalar under a candidate key at some depth,
\* the result is the value of the first such candidate.
C1_DirectScalar ==
    (epc = "returned" /\ data.t = "dict" /\ DirectScalarCands(data, keys) # {})
        => LET i == Least(DirectScalarCands(data, keys))
           IN (\A j \in 1..(i - 1) :
                   HasKey(data, keys[j]) => Occ(Lookup(data, keys[j]), keys) = {})
              => result = Lookup(data, keys[i])

\* C1 witness: the second candidate is the direct scalar key, the first one
\* is a direct key with a non-scalar value, and the scalar 0 is returned.
C1_Witness ==
    /\ epc = "returned" /\ data.t = "dict" /\ Len(keys) = 2
    /\ HasKey(data, keys[1]) /\ ~Scalar(Lookup(data, keys[1]))
    /\ HasKey(data, keys[2]) /\ Lookup(data, keys[2]) = PyInt(0)
    /\ result = PyInt(0)

\* C2: when exactly one candidate key holds a scalar value anywhere in the
\* structure, the result is that value.
C2_UniqueMatch ==
    (epc = "returned" /\ Cardinality(Occ(data, keys)) = 1)
        => \A p \in Occ(data, keys) : result = p[2]

\* C2 witness: the only match is the scalar 0, three levels down, and an
\* empty container sits under a candidate key elsewhere.
C2_Witness ==
    /\ epc = "returned" /\ result = PyInt(0)
    /\ \E p \in Occ(data, keys) : Occ(data, keys) = {p} /\ Len(p[1]) >= 3
    /\ data.t = "dict"
    /\ \E i \in 1..Len(data.ents) :
          /\ data.ents[i].k \in Range(keys)
          /\ data.ents[i].val \in {PyDict(<<>>), PyList(<<>>)}

\* C3: when no candidate key occurs at any depth (the input being a mapping,
\* a sequence, a scalar or None), the call returns None.
C3_NoCandidate ==
    (epc = "returned" /\ ~KeyOccurs(data, keys)) => result = None

\* C3 witness: a mapping with a foreign key holding a non-zero scalar.
C3_Witness ==
    /\ epc = "returned" /\ ~KeyOccurs(data, keys) /\ result = None
    /\ data.t = "dict" /\ \E i \in 1..Len(data.ents) : data.ents[i].val = PyInt(1)

\* C4: for a sequence input, the result is the match of the first element
\* (in index order) that yields one.
C4_SequenceOrder ==
    (epc = "returned" /\ data.t = "list")
        => \A i \in 1..Len(data.elems) :
              (/\ extract_value(data.elems[i], keys) # None
               /\ \A j \in 1..(i - 1) : extract_value(data.elems[j], keys) = None)
              => result = extract_value(data.elems[i], keys)

\* C4 witness: two elements yield different matches; the first one is returned.
C4_Witness ==
    /\ epc = "returned" /\ data.t = "list" /\ Len(data.elems) >= 2
    /\ extract_value(data.elems[1], keys) # None
    /\ extract_value(data.elems[2], keys) # None
    /\ extract_value(data.elems[1], keys) # extract_value(data.elems[2], keys)
    /\ result = extract_value(data.elems[1], keys)

\* C5: the result is None exactly when no candidate key holds a scalar
\* anywhere in the structure; a result that is not None is one of the
\* scalars held under a candidate key, so when every such scalar is 0 or ""
\* the result is 0 or "", never None.
C5_NotFoundDistinct ==
    epc = "returned"
        => /\ (result = None) <=> (Occ(data, keys) = {})
           /\ result # None => result \in {p[2] : p \in Occ(data, keys)}

\* C5 witness: the only matches are falsy scalars below the top level and the
\* result is the empty string.
C5_Witness ==
    /\ epc = "returned" /\ result = PyStr("")
    /\ \A p \in Occ(data, keys) : p[2] \in {PyInt(0), PyStr("")} /\ Len(p[1]) >= 2

\* The matches of d in the traversal order (a)-(d), read with (c) taken
\* whenever the candidates of (a)/(b) gave nothing: first the candidates that
\* are direct keys, in candidate order (a scalar value, or else the matches
\* inside the value), then the matches inside every value of the mapping in
\* iteration order; a sequence contributes the matches of its elements.
RECURSIVE RefMatches(_, _)
RefMatches(d, ks) ==
    IF d.t = "dict"
    THEN Flatten([i \in 1..Len(ks) |->
                    IF HasKey(d, ks[i])
                    THEN IF Scalar(Lookup(d, ks[i])) THEN <<Lookup(d, ks[i])>>
                         ELSE RefMatches(Lookup(d, ks[i]), ks)
                    ELSE <<>>])
         \o Flatten([i \in 1..Len(d.ents) |-> RefMatches(d.ents[i].val, ks)])
    ELSE IF d.t = "list"
    THEN Flatten([i \in 1..Len(d.elems) |-> RefMatches(d.elems[i], ks)])
    ELSE <<>>

\* The same order with (c) as the claim words it: the values of the mapping
\* are searched only if no candidate is a direct key of the mapping.
RECURSIVE RefMatchesStrict(_, _)
RefMatchesStrict(d, ks) ==
    IF d.t = "dict"
    THEN IF \E i \in 1..Len(ks) : HasKey(d, ks[i])
         THEN Flatten([i \in 1..Len(ks) |->
                    IF HasKey(d, ks[i])
                    THEN IF Scalar(Lookup(d, ks[i])) THEN <<Lookup(d, ks[i])>>
                         ELSE RefMatchesStrict(Lookup(d, ks[i]), ks)
                    ELSE <<>>])
         ELSE Flatten([i \in 1..Len(d.ents) |-> RefMatchesStrict(d.ents[i].val, ks)])
    ELSE IF d.t = "list"
    THEN Flatten([i \in 1..Len(d.elems) |-> RefMatchesStrict(d.elems[i], ks)])
    ELSE <<>>

FirstOrNone(ms) == IF Len(ms) = 0 THEN None ELSE ms[1]

\* C6 as stated: the result is that of the reference search in which the
\* values of a mapping are searched only if no candidate is a direct key.
C6_AsStated ==
    epc = "returned" => result = FirstOrNone(RefMatchesStrict(data, keys))

\* C6, amended: the result is that of the reference search in which the
\* values of a mapping are searched whenever the direct candidates gave no
\* result (also when a candidate is a direct key whose value holds no match).
C6_Reference ==
    epc = "returned" => result = FirstOrNone(RefMatches(data, keys))

\* C6 witness: a candidate is a direct key with a non-scalar value holding
\* no match, and the result comes from another value of the mapping.
C6_Witness ==
    /\ epc = "returned" /\ data.t = "dict" /\ result # None
    /\ \E i \in 1..Len(keys) :
          HasKey(data, keys[i]) /\ ~Scalar(Lookup(data, keys[i]))
    /\ \A i \in 1..Len(keys) :
          HasKey(data, keys[i]) => /\ ~Scalar(Lookup(data, keys[i]))
                                   /\ Occ(Lookup(data, keys[i]), keys) = {}

(***************************************************************************)
(* Claims about a run of main.                                             *)
(***************************************************************************)
\* The requests sent for candidate i.
WritesFor(i) == {j \in 1..Len(writes) : writes[j].table = "activities" /\ writes[j].cand = i}

HealthWrites == {j \in 1..Len(writes) : writes[j].table = "health"}

\* The name of the title property of a table.
TitleOf(table) == IF table = "health" THEN "Name" ELSE "ActivityName"

\* C7: every page create or update that is sent carries a title property
\* (with non-empty text) and a Date property with a non-empty start.
C7_WritesIdentified ==
    lastWrite.table # "none"
        => /\ TitleOf(lastWrite.table) \in DOMAIN lastWrite.props
           /\ lastWrite.props[TitleOf(lastWrite.table)].kind = "title"
           /\ lastWrite.props[TitleOf(lastWrite.table)].content # ""
           /\ "Date" \in DOMAIN lastWrite.props
           /\ lastWrite.props["Date"].kind = "date"
           /\ lastWrite.props["Date"].start # NoIso

\* C7 witness: a page was created for an activity that came without a name,
\* after an activity without a timestamp was left out.
C7_Witness ==
    /\ lastWrite.table = "activities" /\ lastWrite.op = "create"
    /\ idx > 1 /\ candidates[idx - 1].name = ""
    /\ \E i \in 1..Len(activities) : activities[i].startTimeGMT = NoTs

\* C8: after a successful login no fetch error ends the run: each metric
\* whose fetch raised holds its empty default, the run is never aborted,
\* and it goes on to the end, where the health write has been attempted and
\* the loop over the candidates has run to its end.
C8_FetchErrorsTolerated ==
    /\ [](/\ pc # "aborted"
          /\ \A i \in 1..Len(HealthMetrics) :
                HealthMetrics[i] \in raisedFetches
                    => metrics[i] = DefaultOf(HealthMetrics[i])
          /\ "activities" \in raisedFetches => activities = <<>>
          /\ pc = "done" => /\ HealthWrites # {}
                            /\ idx > Len(candidates))
    /\ (pc = "fetch") ~> (pc = "done")

\* C8 witness: every per-day fetch raised, each metric holds its default and
\* the health write has been attempted.
C8_Witness ==
    /\ pc = "preload"
    /\ raisedFetches = {HealthMetrics[i] : i \in 1..Len(HealthMetrics)}
    /\ \A i \in 1..Len(HealthMetrics) : metrics[i] = DefaultOf(HealthMetrics[i])
    /\ HealthWrites # {}

\* C9: no request is retried and a failed request stops nothing: at most one
\* health create; for each candidate at most one request (an update or a
\* create), exactly one once the loop has passed it, whatever the outcome of
\* the requests before it; the run is never aborted.
C9_NoRetryNoAbort ==
    /\ Cardinality(HealthWrites) <= 1
    /\ \A j \in HealthWrites : writes[j].op = "create"
    /\ \A i \in 1..Len(candidates) :
          /\ Cardinality(WritesFor(i)) <= 1
          /\ (i < idx) => Cardinality(WritesFor(i)) = 1
    /\ pc = "done" => \A i \in 1..Len(candidates) : Cardinality(WritesFor(i)) = 1
    /\ pc # "aborted"

\* C9 witness: the health create and the request of the first candidate
\* failed, and the second candidate still got its request; the run ended.
C9_Witness ==
    /\ pc = "done" /\ Len(candidates) = 2 /\ Len(writes) = 3
    /\ ~writes[1].ok /\ ~writes[2].ok
    /\ writes[3].cand = 2

\* C10 as stated, for every request sent for a candidate: (1) a candidate
\* whose Garmin ID is that of a preloaded page is updated on a page with that
\* ID; (2) a candidate updated on a page with another Garmin ID value (a
\* match by name|date|type) has no Garmin ID, or the page has none; (3) a
\* candidate matching no preloaded page by ID or key is created.
C10_AsStated ==
    \A j \in 1..Len(writes) :
        writes[j].table = "activities" =>
            LET act == candidates[writes[j].cand]
                iso == parse_garmin_datetime(act.startTimeGMT)
                gid == GarminIdOf(act)
                key == <<ActivityName(act, iso), DateOnly(iso),
                         format_activity_type(act.typeKey, ActivityName(act, iso))>>
                sameId == {i \in 1..Len(loaded) : gid # "" /\ loaded[i].gid = gid}
                sameKey == {i \in 1..Len(loaded) : PageKey(loaded[i]) = key}
            IN /\ sameId # {} =>
                    /\ writes[j].op = "update"
                    /\ \E i \in sameId : loaded[i].id = writes[j].page
               /\ writes[j].op = "update" =>
                    \A i \in 1..Len(loaded) :
                        (loaded[i].id = writes[j].page /\ loaded[i].gid # gid)
                            => (gid = "" \/ loaded[i].gid = "")
               /\ (sameId = {} /\ sameKey = {}) => writes[j].op = "create"

\* The local calendar day of a UTC timestamp.
LocalDay(ts) == (ts.day * 24 + ts.hour - UtcOffset) \div 24

\* The start of the activity parses and falls, in local time, on or after
\* today minus 14 days.
InWindow(act) ==
    /\ act.startTimeGMT.fmt = "utc"
    /\ LocalDay(act.startTimeGMT) >= Today - WindowDays

NothingIssued ==
    /\ fi = 1 /\ metrics = Unfetched /\ raisedFetches = {}
    /\ loaded = <<>> /\ existing_by_garmin_id = <<>> /\ existing_by_key = <<>>
    /\ activities = <<>> /\ candidates = <<>>
    /\ writes = <<>> /\ lastWrite = NoWrite /\ healthPages = 0

\* C12: with a required environment variable missing the run ends before
\* the login and before any fetch, query or write; with a failed login it
\* ends before any fetch, query or write.  In both cases no step changes
\* the activities table and the run takes no further step once ended.
C12_EarlyExit ==
    /\ [](~envOk => /\ pc \in {"start", "exit"}
                     /\ loginState = "no"
                     /\ NothingIssued)
    /\ [](loginState = "failed" => pc = "exit" /\ NothingIssued)
    /\ [][(~envOk \/ loginState' = "failed") => db' = db /\ healthPages' = healthPages]_vars
    /\ [][pc # "exit"]_vars

\* C12 witness: the login failed and the run has ended.
C12_Witness ==
    pc = "exit" /\ envOk /\ loginState = "failed" /\ Len(db) > 0

\* C12 witness, second case: the run has ended on a missing variable.
C12_WitnessEnv ==
    pc = "exit" /\ ~envOk /\ Len(db) > 0

(***************************************************************************)
(* Claims about clean_training_label.                                      *)
(***************************************************************************)
\* C13 as stated: enum-label cleanup is a direct table lookup: called on a
\* key K of the table `known`, clean_training_label returns the table's
\* value for K.
C13_AsStated ==
    lpc = "returned" =>
        \A i \in 1..Len(known) : label = known[i].k => cleaned = known[i].v

\* C15 as stated: after a preload that read the whole table,
\* db_has_garmin_id is true exactly when the activities table has a
\* 'Garmin ID' property; and a page created for an activity that has an ID,
\* in a table that has the property, carries that ID.
C15_AsStated ==
    /\ (pc \in {"fetch_acts", "sync", "done"} /\ Len(loaded) = Len(db) /\ writes = <<>>)
          => (db_has_garmin_id <=> tableHasGarminId)
    /\ (lastWrite.table = "activities" /\ lastWrite.op = "create"
            /\ tableHasGarminId /\ GarminIdOf(candidates[idx - 1]) # "")
          => /\ "GarminID" \in DOMAIN lastWrite.props
             /\ lastWrite.props["GarminID"].content = GarminIdOf(candidates[idx - 1])

(***************************************************************************)
(* Claims about two runs of main.                                          *)
(***************************************************************************)
\* The pages the run before created or matched: the pages of its updates,
\* and the pages its creates appended to the table.
PrevCreates ==
    Cardinality({j \in 1..Len(prevRun.writes) :
                    /\ prevRun.writes[j].table = "activities"
                    /\ prevRun.writes[j].op = "create"})
PrevPages ==
    {prevRun.writes[j].page : j \in {i \in 1..Len(prevRun.writes) :
                                        /\ prevRun.writes[i].table = "activities"
                                        /\ prevRun.writes[i].op = "update"}}
        \cup ((prevRun.pages - PrevCreates + 1)..prevRun.pages)

\* The first run preloaded every page of the table it found; the second
\* run preloaded every page the first run left and fetched the activity
\* list the first run fetched.
SameInputs ==
    /\ run = 2 /\ pc \in {"sync", "done"}
    /\ prevRun.loaded = prevRun.pages - PrevCreates
    /\ Len(loaded) = prevRun.pages
    /\ activities = prevRun.activities

\* C14 as stated: when a run in which the preload and every write
\* succeeded is followed by a run over the same fetched activities that
\* preloads the pages as they were written, the second run creates no
\* activity page and updates only pages the first run created or matched.
C14_AsStated ==
    SameInputs =>
        \A j \in 1..Len(writes) :
            writes[j].table = "activities" =>
                /\ writes[j].op = "update"
                /\ writes[j].page \in PrevPages

====
